---- MODULE Spec2Model ----
(***************************************************************************)
(* The service/file editor page of TerraGuard                              *)
(* (src/app/cloud/[id]/editor/page.tsx, first EditorPage) together with    *)
(* the CodeEditor component it mounts (src/components/code-editor.tsx).    *)
(*                                                                         *)
(* JavaScript objects are modelled as ordered maps: sequences of           *)
(* [k |-> key, v |-> value] entries in insertion order, which is the order *)
(* Object.keys and Object.entries iterate string keys in.                  *)
(***************************************************************************)
EXTENDS Integers, Sequences, FiniteSets, TLC

\* ------------------------------------------------------------------ bounds
\* Number of file-save requests dispatched in one behaviour of the workspace
\* with its editor.
MaxSaves == 1
\* Number of file-save requests dispatched in one behaviour of the persistence
\* gateway.
MaxInFlight == 2
\* Number of times the load effect runs again after mount.
MaxLoads == 1
\* Number of apply requests dispatched in one behaviour.
MaxApplies == 2
\* Number of files of one service of a folder structure.
MaxServiceFiles == 2
\* Number of files of a folder structure delivered to the workspace with its
\* editor and to the apply dialog.
MaxTreeFiles == 2
\* Resize events in one burst (ResizeSpec).
MaxBurst == 3
\* Calls of editor.layout() (ResizeSpec).
MaxLayouts == 3

\* ------------------------------------------------------- JavaScript values
\* The value `undefined` (a missing key, the first element of an empty array).
Undefined == "undefined"

\* JavaScript truthiness of a string-or-undefined value.
Truthy(x) == x # Undefined /\ x # ""

\* ------------------------------------------------------------ ordered maps
Has(m, key) == \E i \in DOMAIN m : m[i].k = key

\* m[key]; only applied where the key is present (absent keys are handled by
\* the callers, as `undefined` has a different shape from every value).
Get(m, key) == m[CHOOSE i \in DOMAIN m : m[i].k = key].v

\* { ...m, [key]: val }: an existing key keeps its position, a new one is
\* appended.
Put(m, key, val) ==
    IF Has(m, key)
    THEN [i \in DOMAIN m |-> IF m[i].k = key THEN [k |-> key, v |-> val] ELSE m[i]]
    ELSE Append(m, [k |-> key, v |-> val])

\* Object.keys(m)[0]
FirstKey(m) == IF m = <<>> THEN Undefined ELSE m[1].k

\* m[key] for a map of strings, `undefined` when the key is absent.
GetStr(m, key) == IF Has(m, key) THEN Get(m, key) ELSE Undefined

\* { ...m[key] } for a map of maps: spreading `undefined` gives {}.
SpreadAt(m, key) == IF Has(m, key) THEN Get(m, key) ELSE <<>>

\* ------------------------------------------------------------ input domains
Services == {"ec2", "s3"}
Files == {"main.tf", "bucket.tf", "vars.tf"}
\* File contents delivered by the backend or typed into the editor buffer.
Contents == {"", "B"}
\* Contents of the files of a delivered folder structure.
LoadContents == {"A"}
\* Values typed into a credential field.
CredValues == {"", "k"}

\* Sequences without repetition over a set, of length lo..hi.
DistinctSeqs(S, lo, hi) ==
    UNION {{s \in [1..n -> S] : \A i, j \in 1..n : i # j => s[i] # s[j]} : n \in lo..hi}

\* The file maps a service can hold: at least one file (spec.md section 3).
FileMaps ==
    UNION {{[i \in DOMAIN ks |-> [k |-> ks[i], v |-> cs[i]]] :
                cs \in [DOMAIN ks -> LoadContents]} :
           ks \in DistinctSeqs(Files, 1, MaxServiceFiles)}

\* The services of one provider, possibly none.
ServiceMaps ==
    UNION {{[i \in DOMAIN ks |-> [k |-> ks[i], v |-> fs[i]]] :
                fs \in [DOMAIN ks -> FileMaps]} :
           ks \in DistinctSeqs(Services, 0, Cardinality(Services))}

\* A service map of at most one service holding one file.
SmallServiceMaps == {sm \in ServiceMaps : Len(sm) <= 1 /\ \A i \in DOMAIN sm : Len(sm[i].v) = 1}

Providers == <<"aws", "gcp">>

\* The data of useFolderStructure(id): undefined until the fetch answers, then
\* provider -> service -> file -> content.
NoFolderStructure == [defined |-> FALSE, providers |-> <<>>]

FolderStructures ==
    {[defined |-> TRUE, providers |-> <<[k |-> Providers[1], v |-> sm]>>] : sm \in ServiceMaps}
    \cup
    {[defined |-> TRUE,
      providers |-> <<[k |-> Providers[1], v |-> a], [k |-> Providers[2], v |-> b]>>] :
        a \in SmallServiceMaps, b \in SmallServiceMaps}

\* Configuration identifiers, as character sequences: "aws-1" and "gcp-1".
Ids == {<<"a", "w", "s", "-", "1">>, <<"g", "c", "p", "-", "1">>}

\* id.split("-")[0]: the characters before the first "-".
RECURSIVE SplitFirst(_)
SplitFirst(str) ==
    IF str = <<>> \/ Head(str) = "-" THEN <<>> ELSE <<Head(str)>> \o SplitFirst(Tail(str))

UpperChar(c) ==
    CASE c = "a" -> "A" [] c = "w" -> "W" [] c = "s" -> "S"
      [] c = "g" -> "G" [] c = "c" -> "C" [] c = "p" -> "P" [] OTHER -> c

\* String.prototype.toUpperCase
ToUpperCase(str) == [i \in DOMAIN str |-> UpperChar(str[i])]

\* The static sample set of lib/sampleConfigFiles: provider -> service map.
\* Only "aws" has one; its content is the scenario tree of spec.md section 8.
SampleTree ==
    <<[k |-> "ec2", v |-> <<[k |-> "main.tf", v |-> "A"]>>],
      [k |-> "s3", v |-> <<[k |-> "bucket.tf", v |-> "B"]>>]>>

HasSample(prov) == prov = <<"a", "w", "s">>

sampleConfigs(prov) == SampleTree

\* ------------------------------------------------------------------- state
VARIABLES
    phase,                \* "init" | "mounted" | "crashed" (an effect threw) | "unmounted"
    id,                   \* params.id
    folderStructure,      \* data of useFolderStructure(id)
    serviceFiles, selectedService, activeFile, configName, provider,
    isPushDialogOpen, selectedPushService, isPushing, expandedServices,
    accessKey, secretKey, region,
    editorPhase,          \* CodeEditor: "none" | "loading" | "ready"
    mountSel,             \* what the onSave of CodeEditor's first render closes over
    cmdSel,               \* what the onSave captured by the Ctrl+S command closes over
    relayout,             \* CodeEditor: its layout timers and the calls of editor.layout()
    saveReqs,             \* POST /api/database/filesave requests, in dispatch order
    applyReqs,            \* POST /api/terraformapply requests, in dispatch order
    toasts,               \* toasts shown by the last handler
    lastEvent,            \* the last handler run, with the values it was called on
    loads,                \* runs of the load effect after mount
    backend,              \* what the backend stores: (cloudId, folder, file) -> content
    tabbed,               \* the tabbed (commit/push) editor page of page.tsx 507-853
    readOnly,             \* CodeEditor: its readOnly prop
    toggleHist            \* history: the last toggles of one service since the load

pageVars == <<serviceFiles, selectedService, activeFile, configName, provider,
              selectedPushService, expandedServices>>
dialogVars == <<isPushDialogOpen, isPushing, accessKey, secretKey, region>>
editorVars == <<editorPhase, mountSel, cmdSel, relayout>>
vars == <<phase, id, folderStructure, pageVars, dialogVars, editorVars,
          saveReqs, backend, tabbed, readOnly, applyReqs, toasts, lastEvent, loads, toggleHist>>

\* What a handleSaveFile closure holds of its render: id, selectedService and
\* activeFile.
Closure(idv, service, file) == [id |-> idv, service |-> service, file |-> file]

NoSel == Closure(<<>>, "", "")

\* The delay of the resize timer (code-editor.tsx 114) and of the initial
\* layout timer (code-editor.tsx 101), in milliseconds.
ResizeDelay == 100
InitialLayoutDelay == 100

\* The layout machinery of a CodeEditor without timers:
\*   resizeTimeoutRef  "null", "pending" (the id of a pending timer) or
\*                     "stale" (the id of a timer that fired or was cleared);
\*   timers            the delays of the pending resize timers;
\*   initialTimers     the delays of the pending initial-layout timers;
\*   layouts           the calls of editor.layout() so far;
\*   burst             history: the resize events since the last resize timer
\*                     fired.
NoRelayout ==
    [resizeTimeoutRef |-> "null", timers |-> <<>>, initialTimers |-> <<>>,
     layouts |-> 0, burst |-> 0]

\* The delay of the simulated push of the tabbed page (page.tsx 686).
PushDelay == 2000

\* The tabbed page before its effect ran: the useState initial values of
\* page.tsx 543-550 that its push dialog uses, whether its effect found files
\* to show, and the pending completion timers of its pushes.
TabbedInit ==
    [mounted |-> FALSE, loaded |-> FALSE, isPushDialogOpen |-> FALSE, commitMessage |-> <<>>,
     branch |-> "main", isPushing |-> FALSE, timers |-> <<>>]

\* No toggle since the load. Otherwise toggleHist holds the service toggled
\* last, its flag before the first of its n consecutive toggles (n is 1 or 2,
\* toggles of no other service in between), and whether a selection was made
\* since that first toggle.
NoToggle == [service |-> "", was |-> FALSE, n |-> 0, between |-> FALSE]

\* useState initial values (page.tsx 58-72) before the first effect runs.
Init ==
    /\ phase = "init"
    /\ id \in Ids
    /\ folderStructure = NoFolderStructure
    /\ serviceFiles = <<>>
    /\ selectedService = ""
    /\ activeFile = ""
    /\ configName = <<>>
    /\ provider = <<>>
    /\ isPushDialogOpen = FALSE
    /\ selectedPushService = ""
    /\ isPushing = FALSE
    /\ expandedServices = <<>>
    /\ accessKey = ""
    /\ secretKey = ""
    /\ region = "us-west-2"
    /\ editorPhase = "none"
    /\ mountSel = NoSel
    /\ cmdSel = NoSel
    /\ relayout = NoRelayout
    /\ saveReqs = <<>>
    /\ backend = <<>>
    /\ tabbed = TabbedInit
    /\ readOnly = FALSE
    /\ applyReqs = <<>>
    /\ toasts = <<>>
    /\ lastEvent = [op |-> "none"]
    /\ loads = 0
    /\ toggleHist = NoToggle

\* ------------------------------------------------------------------ toasts
Toast(title, description, subject, variant) ==
    [title |-> title, description |-> description, subject |-> subject, variant |-> variant]

FileSavedToast(file) == Toast("File saved", "has been saved successfully.", file, "default")
SaveFailedToast == Toast("Error", "Failed to save the file", "", "destructive")
ChangesSavedToast ==
    Toast("Changes saved", "Your configuration has been updated successfully.", "", "default")
SelectServiceToast == Toast("Error", "Please select a service to apply", "", "destructive")
CredentialsToast == Toast("Error", "Please provide all required credentials", "", "destructive")
ApplyFailedToast == Toast("Error", "Failed to apply changes", "", "destructive")
ChangesAppliedToast(service) ==
    Toast("Changes applied", "have been applied to the cloud.", service, "default")

\* ------------------------------------------------------- the load effect
\* newServiceFiles of the live branch: every service of every provider, in
\* iteration order; a service met again replaces the earlier one in place.
RECURSIVE FlattenServices(_, _)
FlattenServices(sm, acc) ==
    IF sm = <<>> THEN acc
    ELSE FlattenServices(Tail(sm), Put(acc, Head(sm).k, Head(sm).v))

RECURSIVE FlattenProviders(_, _)
FlattenProviders(ps, acc) ==
    IF ps = <<>> THEN acc
    ELSE FlattenProviders(Tail(ps), FlattenServices(Head(ps).v, acc))

\* An initial expansion state that expands the first service only.
FirstExpanded(tree) == [i \in DOMAIN tree |-> [k |-> tree[i].k, v |-> i = 1]]

\* initialExpandedState: every service of the tree mapped to true.
AllExpanded(tree) == [i \in DOMAIN tree |-> [k |-> tree[i].k, v |-> TRUE]]

\* A load that takes the last file of the service instead of the first.
LastFileOf(tree, service) ==
    LET files == Get(tree, service) IN IF files = <<>> THEN Undefined ELSE files[Len(files)].k

\* The first file of the first service; Object.keys of the files of a service
\* the tree lacks throws, which the callers test before.
FirstFileOf(tree, service) == FirstKey(Get(tree, service))

\* What the effect of page.tsx 82-158 sets, given the values of its render:
\* `set` holds the state variables it assigns, `threw` whether it ended in a
\* TypeError (Object.keys(undefined), line 100).
LoadEffectLive(fs, cur) ==
    LET newServiceFiles == FlattenProviders(fs.providers, <<>>)
        firstService == FirstKey(newServiceFiles)
    IN IF newServiceFiles = <<>>
       THEN [cur EXCEPT !.threw = TRUE,
                        !.serviceFiles = newServiceFiles,
                        !.selectedService = firstService,
                        !.selectedPushService = firstService]
       ELSE [cur EXCEPT !.serviceFiles = newServiceFiles,
                        !.selectedService = firstService,
                        !.selectedPushService = firstService,
                        !.activeFile = FirstFileOf(newServiceFiles, firstService),
                        !.expandedServices = AllExpanded(newServiceFiles),
                        !.configName = ToUpperCase(cur.provider)]

LoadEffectFallback(idv, cur) ==
    LET providerFromId == SplitFirst(idv)
    IN IF providerFromId # <<>> /\ HasSample(providerFromId)
       THEN LET sample == sampleConfigs(providerFromId)
                firstService == FirstKey(sample)
            IN [cur EXCEPT !.provider = providerFromId,
                           !.serviceFiles = sample,
                           !.selectedService = firstService,
                           !.selectedPushService = firstService,
                           !.activeFile = FirstFileOf(sample, firstService),
                           !.expandedServices = AllExpanded(sample),
                           !.configName = ToUpperCase(providerFromId)]
       ELSE cur

LoadEffect(fs, idv, cur) ==
    IF fs.defined THEN LoadEffectLive(fs, cur) ELSE LoadEffectFallback(idv, cur)

CurrentPage ==
    [threw |-> FALSE, serviceFiles |-> serviceFiles, selectedService |-> selectedService,
     selectedPushService |-> selectedPushService, activeFile |-> activeFile,
     expandedServices |-> expandedServices, provider |-> provider, configName |-> configName]

\* The page shows the placeholder of lines 280-288 instead of the workspace.
LoadingPlaceholder(tree) == tree = <<>>

\* The CodeEditor is rendered (page.tsx 369): the workspace is shown and both
\* the selected service and the active file are truthy.
EditorRendered(tree, service, file) ==
    ~LoadingPlaceholder(tree) /\ Truthy(service) /\ Truthy(file)

\* A handleResize that does not clear the pending timer.
NoClearTimeout(r) == r

\* if (resizeTimeoutRef.current) clearTimeout(resizeTimeoutRef.current)
\* (code-editor.tsx 106-108, 130-132): a pending timer is removed; clearing a
\* timer that fired already does nothing.
ClearTimeout(r) ==
    IF r.resizeTimeoutRef = "pending"
    THEN [r EXCEPT !.timers = Tail(@), !.resizeTimeoutRef = "stale"]
    ELSE r

\* The cleanup of the resize effect (code-editor.tsx 129-135) when the
\* CodeEditor unmounts; the instance and its refs are discarded. The timer
\* of the initial layout is not cleared.
ResizeCleanup(r) == [ClearTimeout(r) EXCEPT !.resizeTimeoutRef = "null", !.burst = 0]

\* The CodeEditor instance after a render of the page: mounted on the first
\* render that shows it (its onSave then closes over that render's selection),
\* kept while it stays rendered, discarded when it is no longer rendered.
RenderEditor(idv, tree, service, file) ==
    IF EditorRendered(tree, service, file)
    THEN IF editorPhase = "none"
         THEN /\ editorPhase' = "loading"
              /\ mountSel' = Closure(idv, service, file)
              /\ cmdSel' = NoSel
              /\ UNCHANGED relayout
         ELSE UNCHANGED editorVars
    ELSE /\ editorPhase' = "none"
         /\ mountSel' = NoSel
         /\ cmdSel' = NoSel
         /\ relayout' = ResizeCleanup(relayout)

\* The state after the effect ran on (fs, idv).
RunLoadEffect(fs, idv) ==
    LET r == LoadEffect(fs, idv, CurrentPage)
    IN /\ serviceFiles' = r.serviceFiles
       /\ selectedService' = r.selectedService
       /\ selectedPushService' = r.selectedPushService
       /\ activeFile' = r.activeFile
       /\ expandedServices' = r.expandedServices
       /\ provider' = r.provider
       /\ configName' = r.configName
       /\ phase' = IF r.threw THEN "crashed" ELSE "mounted"
       /\ toggleHist' = NoToggle
       /\ IF r.threw
          THEN /\ editorPhase' = "none"
               /\ mountSel' = NoSel
               /\ cmdSel' = NoSel
               /\ relayout' = ResizeCleanup(relayout)
          ELSE RenderEditor(idv, r.serviceFiles, r.selectedService, r.activeFile)

\* The page mounts: the effect runs on the first data of the hook.
Mount(fs) ==
    /\ phase = "init"
    /\ folderStructure' = fs
    /\ RunLoadEffect(fs, id)
    /\ toasts' = <<>>
    /\ lastEvent' = [op |-> "load", live |-> fs.defined]
    /\ UNCHANGED <<id, dialogVars, saveReqs, backend, tabbed, readOnly, applyReqs, loads>>

\* The fetch of the hook answers: its data goes from undefined to the folder
\* structure of the identifier, and the effect runs again.
FolderStructureArrives(fs) ==
    /\ phase = "mounted"
    /\ ~folderStructure.defined
    /\ loads < MaxLoads
    /\ loads' = loads + 1
    /\ folderStructure' = fs
    /\ RunLoadEffect(fs, id)
    /\ toasts' = <<>>
    /\ lastEvent' = [op |-> "load", live |-> fs.defined]
    /\ UNCHANGED <<id, dialogVars, saveReqs, backend, tabbed, readOnly, applyReqs>>

\* The route moves to another configuration: the hook starts over for the
\* new identifier, with no data yet, and the effect runs again.
IdChanges(newId) ==
    /\ phase = "mounted"
    /\ loads < MaxLoads
    /\ newId # id
    /\ loads' = loads + 1
    /\ id' = newId
    /\ folderStructure' = NoFolderStructure
    /\ RunLoadEffect(NoFolderStructure, newId)
    /\ toasts' = <<>>
    /\ lastEvent' = [op |-> "idChange", from |-> id]
    /\ UNCHANGED <<dialogVars, saveReqs, backend, tabbed, readOnly, applyReqs>>

\* ------------------------------------------------- selection and expansion
Workspace == phase = "mounted" /\ ~LoadingPlaceholder(serviceFiles)

\* expandedServices[service]: undefined (falsy) for a service without a flag.
IsExpanded(exp, service) == Has(exp, service) /\ Get(exp, service)

\* A toggle that always collapses.
CollapsedFlag(exp, service) == FALSE

\* !prev[service]
ToggledFlag(exp, service) == ~IsExpanded(exp, service)

\* An update that drops the spread of the previous flags.
ToggledMapWithoutSpread(exp, service) ==
    <<[k |-> service, v |-> ToggledFlag(exp, service)]>>

\* ({...prev, [service]: !prev[service]})
ToggledMap(exp, service) == Put(exp, service, ToggledFlag(exp, service))

\* The history after a toggle of the service.
ToggleNoted(service) ==
    IF toggleHist.service = service /\ toggleHist.n = 1
    THEN [toggleHist EXCEPT !.n = 2]
    ELSE [service |-> service, was |-> IsExpanded(expandedServices, service), n |-> 1,
          between |-> FALSE]

\* The history after a selection.
SelectionNoted ==
    IF toggleHist.n = 1 THEN [toggleHist EXCEPT !.between = TRUE] ELSE toggleHist

\* page.tsx 259-264
toggleServiceExpanded(service) ==
    /\ Workspace
    /\ Has(serviceFiles, service)
    /\ expandedServices' = ToggledMap(expandedServices, service)
    /\ toggleHist' = ToggleNoted(service)
    /\ toasts' = <<>>
    /\ lastEvent' = [op |-> "toggle", service |-> service]
    /\ UNCHANGED <<phase, id, folderStructure, serviceFiles, selectedService, activeFile,
                   configName, provider, selectedPushService, dialogVars, editorVars,
                   saveReqs, backend, tabbed, readOnly, applyReqs, loads>>

\* A handleServiceSelect that never replaces the active file.
ActiveFileKept(tree, service, file) == file

\* A handleServiceSelect that replaces a missing active file by the last file
\* of the service.
ActiveFileAfterSelectLast(tree, service, file) ==
    IF Truthy(GetStr(Get(tree, service), file)) THEN file ELSE LastFileOf(tree, service)

\* The active file after handleServiceSelect(service): kept when
\* serviceFiles[service][activeFile] is truthy, else the first file.
ActiveFileAfterSelect(tree, service, file) ==
    IF Truthy(GetStr(Get(tree, service), file)) THEN file ELSE FirstFileOf(tree, service)

\* page.tsx 266-273; serviceFiles[service] of a service the tree lacks throws.
handleServiceSelect(service) ==
    /\ Workspace
    /\ Has(serviceFiles, service)
    /\ selectedService' = service
    /\ activeFile' = ActiveFileAfterSelect(serviceFiles, service, activeFile)
    /\ RenderEditor(id, serviceFiles, selectedService', activeFile')
    /\ toggleHist' = SelectionNoted
    /\ toasts' = <<>>
    /\ lastEvent' = [op |-> "selectService", service |-> service, file |-> activeFile]
    /\ UNCHANGED <<phase, id, folderStructure, serviceFiles, configName, provider,
                   selectedPushService, expandedServices, dialogVars,
                   saveReqs, backend, tabbed, readOnly, applyReqs, loads>>

\* A render between the two setters: the service is the new one, the file
\* still the old one.
FileSelectionTorn(service, file) == [selectedService |-> service, activeFile |-> activeFile]

\* setSelectedService(service); setActiveFile(file): both updates are queued
\* in one event handler and React applies them in the same render.
FileSelection(service, file) == [selectedService |-> service, activeFile |-> file]

\* page.tsx 275-278, called from the file buttons of an expanded service
\* (lines 342-358).
handleFileSelect(service, file) ==
    /\ Workspace
    /\ Has(serviceFiles, service)
    /\ IsExpanded(expandedServices, service)
    /\ Has(Get(serviceFiles, service), file)
    /\ selectedService' = FileSelection(service, file).selectedService
    /\ activeFile' = FileSelection(service, file).activeFile
    /\ RenderEditor(id, serviceFiles, selectedService', activeFile')
    /\ toggleHist' = SelectionNoted
    /\ toasts' = <<>>
    /\ lastEvent' = [op |-> "selectFile", service |-> service, file |-> file]
    /\ UNCHANGED <<phase, id, folderStructure, serviceFiles, configName, provider,
                   selectedPushService, expandedServices, dialogVars,
                   saveReqs, backend, tabbed, readOnly, applyReqs, loads>>

\* ------------------------------------------------------------------- saves
\* What fetch(...) returns to its caller: a Promise, before any response.
FetchReturn == "Promise"

\* Request outcomes: a resolved 2xx response, a resolved response carrying an
\* application-level error, a rejected fetch. A request that never responds
\* stays "pending".
Outcomes == {"ok", "apperror", "rejected"}

\* A handleSaveFile whose test of the response is inverted.
SaveFeedbackInverted(response, file) ==
    IF Truthy(response) THEN SaveFailedToast ELSE FileSavedToast(file)

\* The toast handleSaveFile shows after the fetch call (page.tsx 180-192).
SaveFeedback(response, file) ==
    IF ~Truthy(response) THEN SaveFailedToast ELSE FileSavedToast(file)

\* The tree after the functional update of page.tsx 162-168.
WriteFile(prev, service, file, content) ==
    Put(prev, service, Put(SpreadAt(prev, service), file, content))

\* The body of the POST of page.tsx 170-178, with the toast shown for it.
SaveRequest(c, content, toast) ==
    [cloudId |-> c.id, folderName |-> c.service, fileName |-> c.file,
     content |-> content, status |-> "pending", toast |-> toast]

\* A dispatch that aborts the pending requests for the same file.
DispatchedCancelling(reqs, r) ==
    Append([i \in DOMAIN reqs |->
               IF /\ reqs[i].status = "pending"
                  /\ reqs[i].folderName = r.folderName
                  /\ reqs[i].fileName = r.fileName
               THEN [reqs[i] EXCEPT !.status = "cancelled"]
               ELSE reqs[i]], r)

\* The requests after fetch is called for r: r is in flight next to the
\* earlier ones, which no AbortController or queue touches.
Dispatched(reqs, r) == Append(reqs, r)

\* handleSaveFile (page.tsx 160-194) of the render that closure c belongs to;
\* `after` are the toasts of the caller that follow it.
handleSaveFile(c, content, after) ==
    IF Truthy(c.service) /\ Truthy(c.file)
    THEN LET toast == SaveFeedback(FetchReturn, c.file)
         IN /\ serviceFiles' = WriteFile(serviceFiles, c.service, c.file, content)
            /\ saveReqs' = Dispatched(saveReqs, SaveRequest(c, content, toast))
            /\ toasts' = <<toast>> \o after
    ELSE /\ UNCHANGED <<serviceFiles, saveReqs>>
         /\ toasts' = after

CurrentClosure == Closure(id, selectedService, activeFile)

saveFrame == <<backend, tabbed, readOnly, phase, id, folderStructure, selectedService, activeFile,
               configName, provider,
               selectedPushService, expandedServices, dialogVars, applyReqs, loads, toggleHist>>

\* The monaco editor is created and handleEditorDidMount runs
\* (code-editor.tsx 42-102). @monaco-editor/react calls the onMount it holds,
\* which is that of the first render or that of the latest one.
handleEditorDidMount ==
    /\ phase = "mounted"
    /\ editorPhase = "loading"
    /\ editorPhase' = "ready"
    /\ \E c \in {mountSel, CurrentClosure} : cmdSel' = c
    /\ relayout' = [relayout EXCEPT !.initialTimers = Append(@, InitialLayoutDelay)]
    /\ UNCHANGED mountSel
    /\ toasts' = <<>>
    /\ lastEvent' = [op |-> "editorDidMount"]
    /\ UNCHANGED <<phase, id, folderStructure, pageVars, dialogVars, saveReqs, backend, tabbed,
                   readOnly, applyReqs, loads, toggleHist>>

\* The closure the Save button's handleSave calls: the button is bound to the
\* handleSave of the latest render (code-editor.tsx 204).
ButtonClosure == CurrentClosure

\* The closure the window keydown listener calls: the listener is installed
\* once, by an effect with an empty dependency list (code-editor.tsx 164-176).
KeydownClosure == mountSel

\* The closure the editor's Ctrl/Cmd+S command calls (code-editor.tsx 92-96).
CommandClosure == cmdSel

\* Save button -> handleSave (code-editor.tsx 138-147, 204-206); the button
\* is disabled while the editor loads and when it is read-only.
SaveButton(content) ==
    /\ phase = "mounted"
    /\ editorPhase = "ready"
    /\ ~readOnly
    /\ handleSaveFile(ButtonClosure, content, <<ChangesSavedToast>>)
    /\ lastEvent' = [op |-> "save", via |-> "button"]
    /\ UNCHANGED <<saveFrame, editorVars>>

\* Ctrl/Cmd+S on the window -> handleSave of the first render.
SaveKeydown(content) ==
    /\ phase = "mounted"
    /\ editorPhase = "ready"
    /\ handleSaveFile(KeydownClosure, content, <<ChangesSavedToast>>)
    /\ lastEvent' = [op |-> "save", via |-> "keydown"]
    /\ UNCHANGED <<saveFrame, editorVars>>

\* Ctrl/Cmd+S inside the editor -> the command added at mount.
SaveCommand(content) ==
    /\ phase = "mounted"
    /\ editorPhase = "ready"
    /\ handleSaveFile(CommandClosure, content, <<>>)
    /\ lastEvent' = [op |-> "save", via |-> "command"]
    /\ UNCHANGED <<saveFrame, editorVars>>

\* The parent renders the CodeEditor with another readOnly prop
\* (code-editor.tsx 23, 32); the prop reaches the editor options (71, 226)
\* and the disabled attribute of the buttons (199, 204).
SetReadOnly(b) ==
    /\ phase = "mounted"
    /\ editorPhase # "none"
    /\ readOnly # b
    /\ readOnly' = b
    /\ toasts' = <<>>
    /\ lastEvent' = [op |-> "setReadOnly"]
    /\ UNCHANGED <<phase, id, folderStructure, pageVars, dialogVars, editorVars, saveReqs,
                   backend, tabbed, applyReqs, loads, toggleHist>>

\* The key the backend stores the file of request r under.
BackendKey(r) == [cloudId |-> r.cloudId, folderName |-> r.folderName, fileName |-> r.fileName]

\* What the backend stores after request r settled: a request answered with
\* success has written its content, over whatever was stored before.
BackendWrite(store, r, outcome) ==
    IF outcome = "ok" THEN Put(store, BackendKey(r), r.content) ELSE store

\* What the sample set holds at (service, file).
SampleContent(service, file) ==
    IF Has(SampleTree, service) THEN GetStr(Get(SampleTree, service), file) ELSE Undefined

\* A settling that rolls a rejected save back to the sample's content.
SaveSettlesRollingBack(i, outcome) ==
    /\ i \in DOMAIN saveReqs
    /\ saveReqs[i].status = "pending"
    /\ saveReqs' = [saveReqs EXCEPT ![i].status = outcome]
    /\ backend' = BackendWrite(backend, saveReqs[i], outcome)
    /\ serviceFiles' =
         IF outcome = "rejected" /\ SampleContent(saveReqs[i].folderName,
         saveReqs[i].fileName) # Undefined
         THEN Put(serviceFiles, saveReqs[i].folderName,
                  Put(SpreadAt(serviceFiles, saveReqs[i].folderName), saveReqs[i].fileName,
                      SampleContent(saveReqs[i].folderName, saveReqs[i].fileName)))
         ELSE serviceFiles
    /\ toasts' = <<>>
    /\ lastEvent' = [op |-> "saveSettled", index |-> i, outcome |-> outcome]
    /\ UNCHANGED <<phase, id, folderStructure, selectedService, activeFile, configName, provider,
                   selectedPushService, expandedServices, dialogVars, editorVars, applyReqs, loads,
                   toggleHist,
                   tabbed, readOnly>>

\* The backend answers save request i, or the fetch is rejected. No handler is
\* attached to the promise (page.tsx 170-178): nothing of the page changes.
SaveSettles(i, outcome) ==
    /\ i \in DOMAIN saveReqs
    /\ saveReqs[i].status = "pending"
    /\ saveReqs' = [saveReqs EXCEPT ![i].status = outcome]
    /\ backend' = BackendWrite(backend, saveReqs[i], outcome)
    /\ toasts' = <<>>
    /\ lastEvent' = [op |-> "saveSettled", index |-> i, outcome |-> outcome]
    /\ UNCHANGED <<phase, id, folderStructure, pageVars, dialogVars, editorVars, applyReqs, loads,
                   toggleHist,
                   tabbed, readOnly>>

\* ------------------------------------------------------------------ layout
\* editorRef.current: set by handleEditorDidMount (code-editor.tsx 46).
EditorRefSet == editorPhase = "ready"

layoutFrame == <<phase, id, folderStructure, pageVars, dialogVars, editorPhase, mountSel, cmdSel,
                 saveReqs, backend, tabbed, readOnly, applyReqs, loads, toggleHist>>

\* handleResize (code-editor.tsx 105-115): the pending timer is cleared and a
\* new one is started.
handleResize(r) ==
    [ClearTimeout(r) EXCEPT !.timers = Append(@, ResizeDelay),
                            !.resizeTimeoutRef = "pending",
                            !.burst = r.burst + 1]

\* The ResizeObserver of the container reports a size (code-editor.tsx
\* 119-125); it does so from the mount of the CodeEditor on, also while the
\* editor is loading.
ResizeObserved ==
    /\ phase = "mounted"
    /\ editorPhase # "none"
    /\ relayout' = handleResize(relayout)
    /\ toasts' = <<>>
    /\ lastEvent' = [op |-> "resize", via |-> "observer"]
    /\ UNCHANGED layoutFrame

\* The window is resized (code-editor.tsx 127).
WindowResized ==
    /\ phase = "mounted"
    /\ editorPhase # "none"
    /\ relayout' = handleResize(relayout)
    /\ toasts' = <<>>
    /\ lastEvent' = [op |-> "resize", via |-> "window"]
    /\ UNCHANGED layoutFrame

\* The calls of layout after the callback of the resize timer ran
\* (code-editor.tsx 110-114): one if editorRef.current is set.
LayoutsAfterResize(r, refSet) == IF refSet THEN r.layouts + 1 ELSE r.layouts

\* A pending resize timer expires.
ResizeTimerFires ==
    /\ relayout.timers # <<>>
    /\ relayout' = [relayout EXCEPT
                       !.timers = Tail(@),
                       !.resizeTimeoutRef = IF Len(relayout.timers) = 1 THEN "stale" ELSE @,
                       !.layouts = LayoutsAfterResize(relayout, EditorRefSet),
                       !.burst = 0]
    /\ toasts' = <<>>
    /\ lastEvent' = [op |-> "resizeTimer", burst |-> relayout.burst]
    /\ UNCHANGED layoutFrame

\* The timer of the initial layout expires (code-editor.tsx 99-101): it calls
\* layout on the editor it closed over.
InitialLayoutFires ==
    /\ relayout.initialTimers # <<>>
    /\ relayout' = [relayout EXCEPT !.initialTimers = Tail(@), !.layouts = @ + 1]
    /\ toasts' = <<>>
    /\ lastEvent' = [op |-> "initialLayout"]
    /\ UNCHANGED layoutFrame

\* The page is left while the CodeEditor is on screen: React unmounts the
\* CodeEditor and runs the cleanup of its resize effect (code-editor.tsx
\* 129-135). No cleanup exists for the timer of lines 99-101.
Unmount ==
    /\ phase = "mounted"
    /\ editorPhase # "none"
    /\ phase' = "unmounted"
    /\ editorPhase' = "none"
    /\ mountSel' = NoSel
    /\ cmdSel' = NoSel
    /\ relayout' = ResizeCleanup(relayout)
    /\ toasts' = <<>>
    /\ lastEvent' = [op |-> "unmount"]
    /\ UNCHANGED <<id, folderStructure, pageVars, dialogVars, saveReqs, backend, tabbed, readOnly,
                   applyReqs, loads, toggleHist>>

\* ------------------------------------------------------------ apply dialog
\* The dialog is part of the workspace markup (page.tsx 418-502).
DialogShown == Workspace /\ isPushDialogOpen

dialogFrame == <<phase, id, folderStructure, serviceFiles, selectedService, activeFile,
                 configName, provider, expandedServices, editorVars, saveReqs, backend, tabbed,
                 readOnly, loads, toggleHist>>

\* "Apply Changes" button (page.tsx 196-198, 306).
handlePushChanges ==
    /\ Workspace
    /\ ~isPushDialogOpen
    /\ isPushDialogOpen' = TRUE
    /\ toasts' = <<>>
    /\ lastEvent' = [op |-> "openDialog"]
    /\ UNCHANGED <<dialogFrame, selectedPushService, isPushing, accessKey, secretKey, region,
                   applyReqs>>

\* Cancel button (page.tsx 480-486), disabled while pushing.
CancelDialog ==
    /\ DialogShown
    /\ ~isPushing
    /\ isPushDialogOpen' = FALSE
    /\ toasts' = <<>>
    /\ lastEvent' = [op |-> "cancelDialog"]
    /\ UNCHANGED <<dialogFrame, selectedPushService, isPushing, accessKey, secretKey, region,
                   applyReqs>>

\* The dialog's own onOpenChange (page.tsx 418): Escape, the overlay, the
\* close button; not disabled while pushing.
DismissDialog ==
    /\ DialogShown
    /\ isPushDialogOpen' = FALSE
    /\ toasts' = <<>>
    /\ lastEvent' = [op |-> "dismissDialog"]
    /\ UNCHANGED <<dialogFrame, selectedPushService, isPushing, accessKey, secretKey, region,
                   applyReqs>>

\* The inputs of the dialog (page.tsx 430-477), disabled while pushing.
InputsEnabled == DialogShown /\ ~isPushing

SetPushService(service) ==
    /\ InputsEnabled
    /\ Has(serviceFiles, service)
    /\ selectedPushService' = service
    /\ toasts' = <<>>
    /\ lastEvent' = [op |-> "setPushService"]
    /\ UNCHANGED <<dialogFrame, dialogVars, applyReqs>>

SetAccessKey(val) ==
    /\ InputsEnabled
    /\ accessKey' = val
    /\ toasts' = <<>>
    /\ lastEvent' = [op |-> "setAccessKey"]
    /\ UNCHANGED <<dialogFrame, selectedPushService, isPushDialogOpen, isPushing, secretKey,
                   region, applyReqs>>

SetSecretKey(val) ==
    /\ InputsEnabled
    /\ secretKey' = val
    /\ toasts' = <<>>
    /\ lastEvent' = [op |-> "setSecretKey"]
    /\ UNCHANGED <<dialogFrame, selectedPushService, isPushDialogOpen, isPushing, accessKey,
                   region, applyReqs>>

SetRegion(val) ==
    /\ InputsEnabled
    /\ region' = val
    /\ toasts' = <<>>
    /\ lastEvent' = [op |-> "setRegion"]
    /\ UNCHANGED <<dialogFrame, selectedPushService, isPushDialogOpen, isPushing, accessKey,
                   secretKey, applyReqs>>

\* The toasts submitPushChanges shows after the fetch call (page.tsx 242-256),
\* given what fetch returned: both sit in the block of a falsy response.
ApplyFeedback(response) ==
    IF ~Truthy(response)
    THEN <<ApplyFailedToast, ChangesAppliedToast(selectedPushService)>>
    ELSE <<>>

\* The body of the POST of page.tsx 224-233, with the toasts shown for it.
ApplyRequest ==
    [service |-> selectedPushService, cloudId |-> id, awsAccessKey |-> accessKey,
     awsSecretKey |-> secretKey, region |-> region, status |-> "pending",
     toasts |-> ApplyFeedback(FetchReturn)]

\* The first validation of submitPushChanges (page.tsx 205-212).
NoServiceSelected == ~Truthy(selectedPushService)

\* A validation that forgets the region.
CredentialsMissingButRegion == ~Truthy(accessKey) \/ ~Truthy(secretKey)

\* The second validation of submitPushChanges (page.tsx 214-221).
CredentialsMissing == ~Truthy(accessKey) \/ ~Truthy(secretKey) \/ ~Truthy(region)

\* A submission that does not enter submitting.
AfterDispatchIdle(response) ==
    /\ isPushing' = FALSE
    /\ isPushDialogOpen' = isPushDialogOpen
    /\ toasts' = <<>>

\* What submitPushChanges does after clearing the credentials
\* (page.tsx 242-256), given what fetch returned: the block runs only on a
\* falsy response.
AfterDispatch(response) ==
    IF ~Truthy(response)
    THEN /\ isPushing' = FALSE
         /\ isPushDialogOpen' = FALSE
         /\ toasts' = ApplyFeedback(response)
    ELSE /\ isPushing' = TRUE
         /\ isPushDialogOpen' = isPushDialogOpen
         /\ toasts' = ApplyFeedback(response)

\* A clearing that leaves the region in place.
ClearedButRegion == [accessKey |-> "", secretKey |-> "", region |-> region]

\* The credential fields after the dispatch (page.tsx 237-240).
ClearedCredentials == [accessKey |-> "", secretKey |-> "", region |-> ""]

\* Apply button (page.tsx 204-257, 487), disabled while pushing.
submitPushChanges ==
    /\ DialogShown
    /\ ~isPushing
    /\ lastEvent' = [op |-> "submit", accessKey |-> accessKey, secretKey |-> secretKey,
                     region |-> region, service |-> selectedPushService]
    /\ IF NoServiceSelected
       THEN /\ toasts' = <<SelectServiceToast>>
            /\ UNCHANGED <<dialogVars, applyReqs>>
       ELSE IF CredentialsMissing
       THEN /\ toasts' = <<CredentialsToast>>
            /\ UNCHANGED <<dialogVars, applyReqs>>
       ELSE /\ applyReqs' = Append(applyReqs, ApplyRequest)
            /\ accessKey' = ClearedCredentials.accessKey
            /\ secretKey' = ClearedCredentials.secretKey
            /\ region' = ClearedCredentials.region
            /\ AfterDispatch(FetchReturn)
    /\ UNCHANGED <<dialogFrame, selectedPushService>>

\* The backend answers the apply request, or the fetch is rejected. No
\* handler is attached to the promise (page.tsx 224-235).
ApplySettles(i, outcome) ==
    /\ i \in DOMAIN applyReqs
    /\ applyReqs[i].status = "pending"
    /\ applyReqs' = [applyReqs EXCEPT ![i].status = outcome]
    /\ toasts' = <<>>
    /\ lastEvent' = [op |-> "applySettled", index |-> i, outcome |-> outcome]
    /\ UNCHANGED <<phase, id, folderStructure, pageVars, dialogVars, editorVars, saveReqs, backend,
                   tabbed, readOnly, loads, toggleHist>>

\* ------------------------------------------------- the tabbed editor page
\* The second EditorPage of page.tsx (lines 507-853): its push dialog.
MaxMessageLen == 2

\* The characters of a commit message: a blank and a letter.
MessageChars == {" ", "m"}

\* Commit messages, as character sequences.
CommitMessages == UNION {[1..n -> MessageChars] : n \in 0..MaxMessageLen}

Branches == {"main", "dev"}

IsWhitespace(c) == c \in {" ", "\t", "\n"}

RECURSIVE TrimStart(_)
TrimStart(str) ==
    IF str # <<>> /\ IsWhitespace(Head(str)) THEN TrimStart(Tail(str)) ELSE str

RECURSIVE TrimEnd(_)
TrimEnd(str) ==
    IF str # <<>> /\ IsWhitespace(str[Len(str)])
    THEN TrimEnd(SubSeq(str, 1, Len(str) - 1))
    ELSE str

\* A validation that does not trim.
NoTrim(str) == str

\* String.prototype.trim
Trim(str) == TrimEnd(TrimStart(str))

CommitMessageToast == Toast("Error", "Please enter a commit message", "", "destructive")
ChangesPushedToast(branch) ==
    Toast("Changes pushed", "Changes have been pushed to branch.", branch, "default")

tabbedFrame == <<phase, id, folderStructure, pageVars, dialogVars, editorVars, saveReqs,
                 backend, readOnly, applyReqs, loads, toggleHist>>

\* The tabbed page mounts and its effect runs (page.tsx 559-635): the files
\* and the active file are set when the provider of the identifier has a
\* sample set; else the placeholder of lines 689-697 stays.
TabbedMount ==
    /\ ~tabbed.mounted
    /\ tabbed' = [tabbed EXCEPT !.mounted = TRUE, !.loaded = HasSample(SplitFirst(id))]
    /\ toasts' = <<>>
    /\ lastEvent' = [op |-> "tabbedMount"]
    /\ UNCHANGED tabbedFrame

TabbedDialogShown == tabbed.loaded /\ tabbed.isPushDialogOpen

\* "Push Changes" button (page.tsx 660-662).
TabbedHandlePushChanges ==
    /\ tabbed.loaded
    /\ ~tabbed.isPushDialogOpen
    /\ tabbed' = [tabbed EXCEPT !.isPushDialogOpen = TRUE]
    /\ toasts' = <<>>
    /\ lastEvent' = [op |-> "tabbedOpenDialog"]
    /\ UNCHANGED tabbedFrame

\* Commit message input (page.tsx 819-825), disabled while pushing.
TabbedSetCommitMessage(msg) ==
    /\ TabbedDialogShown
    /\ ~tabbed.isPushing
    /\ tabbed' = [tabbed EXCEPT !.commitMessage = msg]
    /\ toasts' = <<>>
    /\ lastEvent' = [op |-> "tabbedSetCommitMessage"]
    /\ UNCHANGED tabbedFrame

\* Branch input (page.tsx 810-815), disabled while pushing.
TabbedSetBranch(b) ==
    /\ TabbedDialogShown
    /\ ~tabbed.isPushing
    /\ tabbed' = [tabbed EXCEPT !.branch = b]
    /\ toasts' = <<>>
    /\ lastEvent' = [op |-> "tabbedSetBranch"]
    /\ UNCHANGED tabbedFrame

\* Cancel button (page.tsx 829-835), disabled while pushing.
TabbedCancel ==
    /\ TabbedDialogShown
    /\ ~tabbed.isPushing
    /\ tabbed' = [tabbed EXCEPT !.isPushDialogOpen = FALSE]
    /\ toasts' = <<>>
    /\ lastEvent' = [op |-> "tabbedCancel"]
    /\ UNCHANGED tabbedFrame

\* The dialog's own onOpenChange (page.tsx 799), not disabled while pushing.
TabbedDismiss ==
    /\ TabbedDialogShown
    /\ tabbed' = [tabbed EXCEPT !.isPushDialogOpen = FALSE]
    /\ toasts' = <<>>
    /\ lastEvent' = [op |-> "tabbedDismiss"]
    /\ UNCHANGED tabbedFrame

\* Push button -> submitPushChanges of the tabbed page (page.tsx 664-687,
\* 836), disabled while pushing. The timer closes over the branch of the
\* submitting render.
TabbedSubmitPushChanges ==
    /\ TabbedDialogShown
    /\ ~tabbed.isPushing
    /\ lastEvent' = [op |-> "tabbedSubmit", commitMessage |-> tabbed.commitMessage]
    /\ IF Trim(tabbed.commitMessage) = <<>>
       THEN /\ toasts' = <<CommitMessageToast>>
            /\ UNCHANGED tabbed
       ELSE /\ tabbed' = [tabbed EXCEPT
                            !.isPushing = TRUE,
                            !.timers = Append(@, [delay |-> PushDelay, branch |-> tabbed.branch])]
            /\ toasts' = <<>>
    /\ UNCHANGED tabbedFrame

\* The completion timer of a push expires (page.tsx 677-686).
TabbedPushTimerFires ==
    /\ tabbed.timers # <<>>
    /\ tabbed' = [tabbed EXCEPT !.timers = Tail(@),
                                !.isPushing = FALSE,
                                !.isPushDialogOpen = FALSE,
                                !.commitMessage = <<>>]
    /\ toasts' = <<ChangesPushedToast(Head(tabbed.timers).branch)>>
    /\ lastEvent' = [op |-> "tabbedPushTimer"]
    /\ UNCHANGED tabbedFrame

\* ------------------------------------------------------------ specifications
\* The number of files of a service map.
RECURSIVE FileCount(_)
FileCount(sm) == IF sm = <<>> THEN 0 ELSE Len(Head(sm).v) + FileCount(Tail(sm))

\* The folder structures of one provider holding at most MaxTreeFiles files.
SmallFolderStructures ==
    {fs \in FolderStructures :
        Len(fs.providers) = 1 /\ FileCount(fs.providers[1].v) <= MaxTreeFiles}

\* Mount, the arrival of the folder structure, a change of identifier.
Load(inputs) ==
    \/ \E fs \in {NoFolderStructure} \cup inputs : Mount(fs)
    \/ \E fs \in inputs : FolderStructureArrives(fs)
    \/ \E newId \in Ids : IdChanges(newId)

Select ==
    \/ \E s \in Services : toggleServiceExpanded(s)
    \/ \E s \in Services : handleServiceSelect(s)
    \/ \E s \in Services, f \in Files : handleFileSelect(s, f)

Save(max) ==
    \/ handleEditorDidMount
    \/ \E c \in Contents : Len(saveReqs) < max /\ SaveButton(c)
    \/ \E c \in Contents : Len(saveReqs) < max /\ SaveKeydown(c)
    \/ \E c \in Contents : Len(saveReqs) < max /\ SaveCommand(c)

Settle ==
    \E i \in 1..MaxInFlight, o \in Outcomes : SaveSettles(i, o)

ApplyRoom == Len(applyReqs) < MaxApplies

Apply ==
    \/ handlePushChanges
    \/ CancelDialog
    \/ DismissDialog
    \/ \E s \in Services : SetPushService(s)
    \/ \E v \in CredValues : SetAccessKey(v)
    \/ \E v \in CredValues : SetSecretKey(v)
    \/ \E v \in CredValues : SetRegion(v)
    \/ ApplyRoom /\ submitPushChanges
    \/ \E i \in 1..MaxApplies, o \in Outcomes : ApplySettles(i, o)

\* The workspace: loading, selection and expansion, over every folder
\* structure.
Next == Load(FolderStructures) \/ Select

Spec == Init /\ [][Next]_vars

\* The workspace with its editor: loading, selection and the three ways to
\* save.
SaveNext == Load(SmallFolderStructures) \/ Select \/ Save(MaxSaves)

SaveSpec == Init /\ [][SaveNext]_vars

\* The persistence gateway: saves over the sample workspace, their requests
\* settling in any order.
PersistNext ==
    \/ Mount(NoFolderStructure)
    \/ \E newId \in Ids : IdChanges(newId)
    \/ \E s \in Services : handleServiceSelect(s)
    \/ \E s \in Services, f \in Files : handleFileSelect(s, f)
    \/ Save(MaxInFlight)
    \/ Settle

PersistSpec == Init /\ [][PersistNext]_vars

\* The apply dialog over a loaded workspace.
ApplyNext == Load(SmallFolderStructures) \/ Apply

ApplySpec == Init /\ [][ApplyNext]_vars

\* The timers and resize events of the editor.
Relayout ==
    \/ relayout.burst < MaxBurst /\ ResizeObserved
    \/ relayout.burst < MaxBurst /\ WindowResized
    \/ relayout.layouts < MaxLayouts /\ ResizeTimerFires
    \/ relayout.layouts < MaxLayouts /\ InitialLayoutFires

\* The editor in its container: loading, mounting, resizing.
ResizeNext ==
    \/ Load(SmallFolderStructures)
    \/ handleEditorDidMount
    \/ \E s \in Services, f \in Files : handleFileSelect(s, f)
    \/ Relayout
    \/ Unmount

ResizeSpec == Init /\ [][ResizeNext]_vars

\* The CodeEditor under a parent that sets its readOnly prop.
EditorNext ==
    \/ Load(SmallFolderStructures)
    \/ Save(MaxSaves)
    \/ \E b \in BOOLEAN : SetReadOnly(b)

EditorSpec == Init /\ [][EditorNext]_vars

\* The push dialog of the tabbed page.
TabbedNext ==
    \/ TabbedMount
    \/ TabbedHandlePushChanges
    \/ \E msg \in CommitMessages : TabbedSetCommitMessage(msg)
    \/ \E b \in Branches : TabbedSetBranch(b)
    \/ TabbedCancel
    \/ TabbedDismiss
    \/ TabbedSubmitPushChanges
    \/ TabbedPushTimerFires

TabbedSpec == Init /\ [][TabbedNext]_vars

\* ------------------------------------------------------------------ claims
\* The selection names an entry of the tree.
SelectionInTree ==
    /\ Has(serviceFiles, selectedService)
    /\ Has(Get(serviceFiles, selectedService), activeFile)

\* The last step ran the load effect on a tree it received: the live folder
\* structure, or the sample set of the identifier's provider.
TreeReceived ==
    /\ lastEvent.op \in {"load", "idChange"}
    /\ folderStructure.defined \/ HasSample(SplitFirst(id))

SelectedServiceLacksFile ==
    /\ lastEvent.op = "selectService"
    /\ ~Has(Get(serviceFiles, lastEvent.service), lastEvent.file)

\* C3: selectService(s), called when the files of s do not contain the active
\* file, makes s the selected service and the first file of s the active file.
C3_SelectServiceTakesFirstFile ==
    SelectedServiceLacksFile =>
        /\ selectedService = lastEvent.service
        /\ activeFile = Get(serviceFiles, lastEvent.service)[1].k

\* C3 witness: selectService(s) ran on a service of two files, neither of them
\* the active file.
C3_Witness ==
    /\ SelectedServiceLacksFile
    /\ Len(Get(serviceFiles, lastEvent.service)) = 2
    /\ activeFile = Get(serviceFiles, lastEvent.service)[1].k

\* C4: every save requested through the editor writes the content at the
\* service and file selected at the moment of the request and leaves every
\* other content unchanged.
C4_SaveWritesSelection ==
    [][(lastEvent'.op = "save" /\ Len(saveReqs') = Len(saveReqs) + 1) =>
          serviceFiles' = Put(serviceFiles, selectedService,
                              Put(SpreadAt(serviceFiles, selectedService), activeFile,
                                  saveReqs'[Len(saveReqs')].content))]_vars

\* C5: a save whose request is rejected is reported with the destructive
\* "Failed to save the file" toast and not with the "File saved" toast.
C5_RejectedSaveReported ==
    \A i \in DOMAIN saveReqs :
        saveReqs[i].status = "rejected" => saveReqs[i].toast = SaveFailedToast

\* C6: the success toast of a save is shown at dispatch, before any response,
\* and stands whatever the response carries: no toast follows the settling.
C6_ResolvedSaveIsSuccess ==
    /\ \A i \in DOMAIN saveReqs :
          saveReqs[i].status \in {"pending", "ok", "apperror"} =>
              saveReqs[i].toast =
                  [title |-> "File saved", description |-> "has been saved successfully.",
                   subject |-> saveReqs[i].fileName, variant |-> "default"]
    /\ lastEvent.op = "saveSettled" => toasts = <<>>

\* C6 witness: a request resolved with an application-level error, its save
\* having shown the success toast.
C6_Witness ==
    \E i \in DOMAIN saveReqs :
        /\ saveReqs[i].status = "apperror"
        /\ saveReqs[i].toast.title = "File saved"
        /\ lastEvent.op = "saveSettled"

\* C7: the in-memory tree changes only by a save or a load: no outcome of a
\* persistence request rolls the optimistic write back.
C7_NoRollback ==
    [][serviceFiles' # serviceFiles => lastEvent'.op \in {"save", "load", "idChange"}]_vars

\* C7 witness: a request was rejected and the tree still holds the content
\* its save wrote, which is not the content that was loaded.
C7_Witness ==
    /\ lastEvent.op = "saveSettled"
    /\ lastEvent.outcome = "rejected"
    /\ LET r == saveReqs[lastEvent.index]
       IN /\ Has(serviceFiles, r.folderName)
          /\ GetStr(Get(serviceFiles, r.folderName), r.fileName) = r.content
          /\ SampleContent(r.folderName, r.fileName) # r.content

\* C8: a submission with an empty access key, secret key or region, or with
\* no target service, dispatches nothing, shows a validation error toast and
\* leaves the dialog open and not submitting.
C8_InvalidSubmitDispatchesNothing ==
    [][(lastEvent'.op = "submit"
        /\ (accessKey = "" \/ secretKey = "" \/ region = "" \/ selectedPushService = "")) =>
          /\ applyReqs' = applyReqs
          /\ Len(toasts') = 1
          /\ toasts'[1].title = "Error"
          /\ toasts'[1].variant = "destructive"
          /\ toasts'[1].description \in {"Please provide all required credentials",
                                         "Please select a service to apply"}
          /\ isPushing' = FALSE
          /\ isPushDialogOpen' = TRUE]_vars

\* C8 witness: a submission with both keys given and the region empty was
\* refused.
C8_Witness ==
    /\ lastEvent.op = "submit"
    /\ lastEvent.accessKey # ""
    /\ lastEvent.secretKey # ""
    /\ lastEvent.region = ""
    /\ toasts = <<CredentialsToast>>
    /\ applyReqs = <<>>
    /\ isPushDialogOpen
    /\ ~isPushing

\* C9: the step that dispatches an apply request leaves the three credential
\* fields empty, and they are empty when the request settles, whatever its
\* outcome.
C9_CredentialsCleared ==
    [][(Len(applyReqs') > Len(applyReqs) \/ lastEvent'.op = "applySettled") =>
          (accessKey' = "" /\ secretKey' = "" /\ region' = "")]_vars

\* C9 witness: a request that carried credentials was rejected and the
\* fields are empty.
C9_Witness ==
    /\ lastEvent.op = "applySettled"
    /\ lastEvent.outcome = "rejected"
    /\ applyReqs[lastEvent.index].awsAccessKey # ""
    /\ applyReqs[lastEvent.index].region # ""
    /\ accessKey = ""
    /\ secretKey = ""
    /\ region = ""

\* C10: a submission that entered submitting leaves it: once its request has
\* settled, by success or by failure, isPushing is false again.
C10_SubmittingEnds ==
    (applyReqs # <<>> /\ \A i \in DOMAIN applyReqs : applyReqs[i].status # "pending") =>
        ~isPushing

\* A toast of the given title is among ts.
HasToast(ts, title) == \E j \in DOMAIN ts : ts[j].title = title

\* C11: every apply request that has settled produced its feedback toast: a
\* "Changes applied" toast and no "Failed to apply changes" toast when it
\* succeeded, the destructive "Failed to apply changes" toast and no
\* "Changes applied" toast when it was rejected.
C11_ApplyFeedbackShown ==
    \A i \in DOMAIN applyReqs :
        /\ applyReqs[i].status = "ok" =>
              /\ HasToast(applyReqs[i].toasts, "Changes applied")
              /\ ApplyFailedToast \notin {applyReqs[i].toasts[j] : j \in DOMAIN applyReqs[i].toasts}
        /\ applyReqs[i].status = "rejected" =>
              /\ ApplyFailedToast \in {applyReqs[i].toasts[j] : j \in DOMAIN applyReqs[i].toasts}
              /\ ~HasToast(applyReqs[i].toasts, "Changes applied")

\* The tree the load effect resolves for the current identifier is empty: a
\* live folder structure without services, or no structure and no sample set
\* for the identifier's provider prefix.
ResolvedTreeEmpty ==
    IF folderStructure.defined
    THEN FlattenProviders(folderStructure.providers, <<>>) = <<>>
    ELSE ~HasSample(SplitFirst(id))

\* C12: after the load effect ran on an empty resolved tree, the page shows
\* the loading placeholder, no error was raised, and neither the selected
\* service nor the active file is undefined.
C12_EmptyTreeStaysLoading ==
    (lastEvent.op \in {"load", "idChange"} /\ ResolvedTreeEmpty) =>
        /\ phase = "mounted"
        /\ LoadingPlaceholder(serviceFiles)
        /\ selectedService # Undefined
        /\ activeFile # Undefined

\* C13: toggleExpanded(s) applied twice to a service of the loaded tree, with
\* any selections in between, leaves the expansion flag of s as it was before
\* the first toggle.
C13_ToggleTwiceRestores ==
    toggleHist.n = 2 =>
        IsExpanded(expandedServices, toggleHist.service) = toggleHist.was

\* C13 witness: an expanded service was toggled twice with a selection made
\* between the two toggles, and is expanded again.
C13_Witness ==
    /\ toggleHist.n = 2
    /\ toggleHist.between
    /\ toggleHist.was
    /\ lastEvent.op = "toggle"
    /\ IsExpanded(expandedServices, toggleHist.service)

\* The flag of service s is the same in both maps: absent in both, or present
\* with the same value.
SameFlag(a, b, s) ==
    /\ Has(a, s) = Has(b, s)
    /\ Has(a, s) => Get(a, s) = Get(b, s)

\* C14: a toggle of s leaves the selected service, the active file, the tree
\* and the flag of every other service as they were; the selection stays also
\* when s is the selected service and becomes collapsed.
C14_ToggleChangesOnlyItsFlag ==
    [][lastEvent'.op = "toggle" =>
          /\ selectedService' = selectedService
          /\ activeFile' = activeFile
          /\ serviceFiles' = serviceFiles
          /\ editorPhase' = editorPhase
          /\ \A s \in Services \ {lastEvent'.service} :
                SameFlag(expandedServices', expandedServices, s)]_vars

\* C14 witness: the selected service of a tree of two services was collapsed,
\* the other service is expanded, and the selection is still in the tree.
C14_Witness ==
    /\ lastEvent.op = "toggle"
    /\ lastEvent.service = selectedService
    /\ ~IsExpanded(expandedServices, selectedService)
    /\ Len(serviceFiles) = 2
    /\ \E s \in Services \ {selectedService} : IsExpanded(expandedServices, s)
    /\ SelectionInTree

\* C15: selectFile(service, file) sets the selected service and the active
\* file in one step, and every save sees a service and a file that were
\* selected together: the file it writes is a file of the service it writes.
C15_SelectFileAtomic ==
    [][/\ lastEvent'.op = "selectFile" =>
            /\ selectedService' = lastEvent'.service
            /\ activeFile' = lastEvent'.file
       /\ (lastEvent'.op = "save" /\ Len(saveReqs') > Len(saveReqs)) =>
            LET r == saveReqs'[Len(saveReqs')]
            IN /\ Has(serviceFiles, r.folderName)
               /\ Has(Get(serviceFiles, r.folderName), r.fileName)]_vars

\* C15 witness: the editor was mounted on one entry, selectFile moved both the
\* service and the file, and the Save button wrote the new entry.
C15_Witness ==
    /\ lastEvent.op = "save"
    /\ lastEvent.via = "button"
    /\ saveReqs # <<>>
    /\ saveReqs[Len(saveReqs)].folderName = selectedService
    /\ saveReqs[Len(saveReqs)].fileName = activeFile
    /\ mountSel.service # selectedService
    /\ mountSel.file # activeFile

\* The page state a fresh mount starts from (the useState initial values).
FreshPage ==
    [threw |-> FALSE, serviceFiles |-> <<>>, selectedService |-> "",
     selectedPushService |-> "", activeFile |-> "", expandedServices |-> <<>>,
     provider |-> <<>>, configName |-> <<>>]

\* C16: after a change of the identifier the selection, the tree and the
\* expansion flags are those a fresh page resolves for the new identifier
\* (nothing, when it has no folder structure and no sample set), the dialog
\* is closed and not submitting, and the key fields are empty.
C16_ResetOnIdChange ==
    lastEvent.op = "idChange" =>
        LET fresh == LoadEffect(NoFolderStructure, id, FreshPage)
        IN /\ serviceFiles = fresh.serviceFiles
           /\ selectedService = fresh.selectedService
           /\ activeFile = fresh.activeFile
           /\ expandedServices = fresh.expandedServices
           /\ ~isPushDialogOpen
           /\ ~isPushing
           /\ accessKey = ""
           /\ secretKey = ""

\* C17: a save dispatches its request next to the requests in flight and
\* leaves each of them as it is: none is cancelled and none is waited for.
C17_SavesNotSequenced ==
    [][Len(saveReqs') > Len(saveReqs) =>
          /\ Len(saveReqs') = Len(saveReqs) + 1
          /\ \A i \in DOMAIN saveReqs : saveReqs'[i] = saveReqs[i]]_vars

\* C17 witness: two saves of one file with different contents; the second
\* settled first, the first settled last; all requests have settled, the
\* backend holds the content of the first save and the tree that of the
\* second.
C17_Witness ==
    /\ Len(saveReqs) = 2
    /\ \A i \in DOMAIN saveReqs : saveReqs[i].status = "ok"
    /\ BackendKey(saveReqs[1]) = BackendKey(saveReqs[2])
    /\ saveReqs[1].content # saveReqs[2].content
    /\ lastEvent.op = "saveSettled"
    /\ lastEvent.index = 1
    /\ Has(backend, BackendKey(saveReqs[1]))
    /\ Get(backend, BackendKey(saveReqs[1])) = saveReqs[1].content
    /\ Has(serviceFiles, saveReqs[2].folderName)
    /\ GetStr(Get(serviceFiles, saveReqs[2].folderName), saveReqs[2].fileName)
           = saveReqs[2].content

\* C18 as stated: at most one resize timer is pending; a resize event leaves
\* exactly one pending timer, of 100 ms, and calls no layout; the timer that
\* ends a burst calls layout exactly once.
C18_ResizeDebounced ==
    [][/\ Len(relayout'.timers) <= 1
       /\ lastEvent'.op = "resize" =>
            /\ relayout'.timers = <<100>>
            /\ relayout'.layouts = relayout.layouts
       /\ lastEvent'.op = "resizeTimer" =>
            /\ relayout.burst >= 1
            /\ relayout'.timers = <<>>
            /\ relayout'.layouts = relayout.layouts + 1]_vars

\* C18, amended: as above, but the timer that ends a burst calls layout once
\* when the editor has mounted by then and not at all while it is loading.
C18_ResizeDebouncedWhenMounted ==
    [][/\ Len(relayout'.timers) <= 1
       /\ lastEvent'.op = "resize" =>
            /\ relayout'.timers = <<100>>
            /\ relayout'.layouts = relayout.layouts
       /\ lastEvent'.op = "resizeTimer" =>
            /\ relayout.burst >= 1
            /\ relayout'.timers = <<>>
            /\ relayout'.layouts =
                  relayout.layouts + (IF editorPhase = "ready" THEN 1 ELSE 0)]_vars

\* C18 witness: a burst of at least two resize events on a mounted editor
\* ended with its timer firing, which made the only layout call so far.
C18_Witness ==
    /\ lastEvent.op = "resizeTimer"
    /\ lastEvent.burst >= 2
    /\ editorPhase = "ready"
    /\ relayout.timers = <<>>
    /\ relayout.resizeTimeoutRef = "stale"
    /\ relayout.layouts = 1
    /\ relayout.initialTimers # <<>>

\* C19: after a load that received a tree, every service of the tree is
\* marked expanded and every flag of the expansion map belongs to a service
\* of the tree.
C19_AllExpandedAfterLoad ==
    (TreeReceived /\ phase = "mounted" /\ serviceFiles # <<>>) =>
        /\ \A i \in DOMAIN serviceFiles :
              /\ Has(expandedServices, serviceFiles[i].k)
              /\ Get(expandedServices, serviceFiles[i].k) = TRUE
        /\ \A j \in DOMAIN expandedServices : Has(serviceFiles, expandedServices[j].k)

\* C19 witness: the sample tree of two services was replaced by a live tree
\* of its second service alone, whose flag is the only one.
C19_Witness ==
    /\ TreeReceived
    /\ phase = "mounted"
    /\ folderStructure.defined
    /\ loads > 0
    /\ HasSample(SplitFirst(id))
    /\ Len(serviceFiles) = 1
    /\ serviceFiles[1].k = SampleTree[2].k
    /\ expandedServices = <<[k |-> serviceFiles[1].k, v |-> TRUE]>>

\* The (service, file) pairs of a tree.
TreeEntries(tree) ==
    UNION {{<<tree[i].k, tree[i].v[j].k>> : j \in DOMAIN tree[i].v} : i \in DOMAIN tree}

\* C20: whenever a live folder structure is present, the services and files
\* of the tree are those of the live structure.
C20_LiveTreeOnly ==
    (folderStructure.defined /\ phase = "mounted") =>
        TreeEntries(serviceFiles) = TreeEntries(FlattenProviders(folderStructure.providers, <<>>))

\* C21: selectService(s) keeps the active file whenever s holds a file of
\* that name, whatever its content, and takes the first file of s only when
\* s holds no file of that name.
C21_SelectServiceKeepsFile ==
    lastEvent.op = "selectService" =>
        LET files == Get(serviceFiles, lastEvent.service)
        IN /\ selectedService = lastEvent.service
           /\ activeFile = IF Has(files, lastEvent.file) THEN lastEvent.file ELSE files[1].k

\* C22: a save dispatches exactly one POST, next to the earlier requests; its
\* folderName, fileName and content are the service, the file and the content
\* the same save wrote in memory, and its cloudId is the configuration
\* identifier.
C22_SaveBodyMatchesWrite ==
    [][lastEvent'.op = "save" =>
          /\ Len(saveReqs') = Len(saveReqs) + 1
          /\ \A i \in DOMAIN saveReqs : saveReqs'[i] = saveReqs[i]
          /\ LET r == saveReqs'[Len(saveReqs')]
             IN /\ serviceFiles' =
                      Put(serviceFiles, r.folderName,
                          Put(SpreadAt(serviceFiles, r.folderName), r.fileName, r.content))
                /\ r.cloudId = id]_vars

\* The controls of the apply dialog that carry disabled={isPushing}.
DisabledWhilePushing ==
    {"submit", "cancelDialog", "setPushService", "setAccessKey", "setSecretKey", "setRegion"}

\* C23: the step that dispatches an apply request is a submission that
\* enters submitting, sends the service and the credentials as they were
\* when it was made, and clears the credentials; while the dialog is
\* submitting none of its disabled controls acts and no request is
\* dispatched, so at most one request is in flight.
C23_OneApplyInFlight ==
    [][/\ Len(applyReqs') > Len(applyReqs) =>
            /\ lastEvent'.op = "submit"
            /\ ~isPushing
            /\ isPushing'
            /\ Len(applyReqs') = Len(applyReqs) + 1
            /\ LET r == applyReqs'[Len(applyReqs')]
               IN /\ r.awsAccessKey = accessKey
                  /\ r.awsSecretKey = secretKey
                  /\ r.region = region
                  /\ r.service = selectedPushService
                  /\ r.status = "pending"
            /\ accessKey' = ""
            /\ secretKey' = ""
            /\ region' = ""
       /\ isPushing =>
            /\ lastEvent'.op \notin DisabledWhilePushing
            /\ Len(applyReqs') = Len(applyReqs)
       /\ Cardinality({i \in DOMAIN applyReqs' : applyReqs'[i].status = "pending"}) <= 1]_vars

\* C23 witness: a request carrying the typed credentials is in flight, the
\* dialog is submitting with its fields cleared, and a further request would
\* still fit the bound.
C23_Witness ==
    /\ lastEvent.op = "submit"
    /\ Len(applyReqs) = 1
    /\ Len(applyReqs) < MaxApplies
    /\ applyReqs[1].status = "pending"
    /\ applyReqs[1].awsAccessKey = lastEvent.accessKey
    /\ applyReqs[1].awsAccessKey # ""
    /\ applyReqs[1].region = lastEvent.region
    /\ isPushing
    /\ isPushDialogOpen
    /\ accessKey = ""

\* Every character of the message is a blank (the empty message included).
BlankMessage(msg) == \A i \in DOMAIN msg : msg[i] = " "

\* C24: in the tabbed page, a submission with an empty or whitespace-only
\* commit message shows the validation toast and starts no push (isPushing
\* false, dialog open, message unchanged, no timer); a submission with a
\* non-blank message enters pushing with one timer, and when the timer fires
\* isPushing is false, the dialog is closed and the message is empty.
C24_BlankCommitMessageRefused ==
    [][/\ lastEvent'.op = "tabbedSubmit" =>
            IF BlankMessage(tabbed.commitMessage)
            THEN /\ Len(toasts') = 1
                 /\ toasts'[1].variant = "destructive"
                 /\ toasts'[1].description = "Please enter a commit message"
                 /\ ~tabbed'.isPushing
                 /\ tabbed'.isPushDialogOpen
                 /\ tabbed'.commitMessage = tabbed.commitMessage
                 /\ tabbed'.timers = <<>>
            ELSE /\ tabbed'.isPushing
                 /\ Len(tabbed'.timers) = 1
                 /\ tabbed'.timers[1].delay = 2000
       /\ lastEvent'.op = "tabbedPushTimer" =>
            /\ tabbed.isPushing
            /\ ~tabbed'.isPushing
            /\ ~tabbed'.isPushDialogOpen
            /\ tabbed'.commitMessage = <<>>
            /\ tabbed'.timers = <<>>]_vars

\* C24 witness: a submission with a message of blanks only was refused.
C24_Witness ==
    /\ lastEvent.op = "tabbedSubmit"
    /\ lastEvent.commitMessage = <<" ", " ">>
    /\ tabbed.commitMessage = <<" ", " ">>
    /\ toasts = <<CommitMessageToast>>
    /\ ~tabbed.isPushing
    /\ tabbed.isPushDialogOpen
    /\ tabbed.timers = <<>>

\* C25: a save, from any trigger, keeps the shape of the tree: the services
\* and the files of each service are the same before and after it; only the
\* content of an existing entry is replaced.
C25_SaveKeepsTreeShape ==
    [][lastEvent'.op = "save" => TreeEntries(serviceFiles') = TreeEntries(serviceFiles)]_vars

\* C27: once the CodeEditor has unmounted no timer that would call layout is
\* pending, neither the resize timer nor an initial-layout timer, and no
\* step makes a layout call.
C27_NoLayoutAfterUnmount ==
    [][phase = "unmounted" =>
          /\ relayout.timers = <<>>
          /\ relayout.initialTimers = <<>>
          /\ relayout'.layouts = relayout.layouts]_vars

\* C26: no save trigger calls onSave while the editor is read-only: not the
\* Save button, not the editor's Ctrl/Cmd+S command, not the window-level
\* Ctrl/Cmd+S handler.
C26_ReadOnlyNeverSaves ==
    [][readOnly => lastEvent'.op # "save"]_vars

====
